---- MODULE Spec2Model ----
(***************************************************************************)
(* Model of the my_data access layer: the identity-bound Context and its   *)
(* SQLAlchemy session, the per-resource ResourceManagers with their        *)
(* Creator / Retriever / Updater / Deleter strategies, and the credential  *)
(* authenticator.                                                          *)
(***************************************************************************)
EXTENDS Integers, Sequences, FiniteSets, TLC

VARIABLES
    users,      \* committed rows of the User table
    resources,  \* committed rows of the user-scoped tables (Tag, APIToken)
    ctx,        \* the Context object in use: its ContextData and session state
    session,    \* rows staged for deletion in ContextData.db_session
    authCfg,    \* class attributes of UserAuthenticator
    last,       \* the last call: its arguments, its outcome and its result
    writes,     \* number of mutating calls made so far
    tokenAuth   \* one APITokenAuthorizer instance: its token string and caches

vars == <<users, resources, ctx, session, authCfg, last, writes, tokenAuth>>

----------------------------------------------------------------------------
(* Bounds *)

MaxWrites == 1      \* mutating calls (create / update / delete) per behaviour
MaxBatch == 2       \* longest list of models passed to one call
MaxStart == 1       \* largest `start` passed to retrieve
MaxItems == 2       \* largest `max_items` passed to retrieve
MaxReads == 2       \* reads of each cached property of one APITokenAuthorizer

----------------------------------------------------------------------------
(* Values *)

NoneId == 0         \* Python None in an integer field
NoneStr == "None"   \* Python None in a string field
NoneInt == -1       \* Python None for `start` and `max_items`

StrRank(s) ==
    CASE s = "a" -> 1
      [] s = "b" -> 2
      [] s = "normal.user.1" -> 3
      [] s = "normal.user.2" -> 4
      [] s = "root" -> 5
      [] s = "service.user" -> 6
      [] OTHER -> 0

\* The identities seeded by MyData.create_init_data.
SeedUsers ==
    { [id |-> 1, username |-> "root", role |-> "ROOT",
       password |-> "root_pw", second_factor |-> NoneStr],
      [id |-> 2, username |-> "normal.user.1", role |-> "USER",
       password |-> "normal_user_1_pw", second_factor |-> NoneStr],
      [id |-> 3, username |-> "normal.user.2", role |-> "USER",
       password |-> "normal_user_2_pw", second_factor |-> NoneStr],
      [id |-> 4, username |-> "service.user", role |-> "SERVICE",
       password |-> "service_password", second_factor |-> NoneStr] }

UserIds == {u.id : u \in SeedUsers}

\* The user-scoped rows seeded by MyData.create_init_data (a bounded extract:
\* every ROOT and USER identity owns at least one row, one owns two).
SeedResources ==
    { [id |-> 1, kind |-> "Tag", user_id |-> 1, title |-> "a"],
      [id |-> 2, kind |-> "Tag", user_id |-> 2, title |-> "a"],
      [id |-> 3, kind |-> "Tag", user_id |-> 2, title |-> "b"],
      [id |-> 4, kind |-> "APIToken", user_id |-> 3, title |-> "a"] }

\* The resource managers a UserContext exposes and the model each manages.
Managers == {"users", "tags", "api_tokens"}

ModelOf(mgr) ==
    CASE mgr = "users" -> "User"
      [] mgr = "tags" -> "Tag"
      [] mgr = "api_tokens" -> "APIToken"

UserScopedModels == {"Tag", "APIToken"}

NoUser == [id |-> NoneId, username |-> NoneStr, role |-> NoneStr,
           password |-> NoneStr, second_factor |-> NoneStr]

\* `last` between two calls: the caller has consumed the previous result.
NoCall == [op |-> "idle"]

\* `tokenAuth` while no APITokenAuthorizer instance is under observation.
NoInstance == [constructed |-> FALSE]

Idle == last.op = "idle"

----------------------------------------------------------------------------
(* The session of a context *)

\* Rows of a model as a query in the context's session sees them: the
\* committed rows without the ones the session has staged for deletion
\* (the session flushes before it queries).
SessionRows(model) ==
    IF model = "User"
    THEN {u \in users : <<"User", u.id>> \notin session}
    ELSE {r \in resources : r.kind = model /\ <<r.kind, r.id>> \notin session}

\* Session.commit: the staged deletions reach the database.
CommittedUsers == {u \in users : <<"User", u.id>> \notin session}

CommittedResources == {r \in resources : <<r.kind, r.id>> \notin session}

----------------------------------------------------------------------------
(* Retrievers *)

\* A where-clause `Model.field == value`; ival holds the value of an integer
\* column and sval the value of a string column.
IntFields == {"id", "user_id"}

IntAtom(f, v) == [field |-> f, ival |-> v, sval |-> NoneStr]

StrAtom(f, v) == [field |-> f, ival |-> NoneId, sval |-> v]

\* A user-scoped retriever that lets a ROOT identity see every row.
Mutant_UserScopedRetriever_get_context_filters(database_model, user) ==
    IF database_model \notin UserScopedModels
    THEN [exc |-> "WrongDataManipulator", filters |-> <<>>]
    ELSE IF user.role = "ROOT"
         THEN [exc |-> "none", filters |-> <<>>]
         ELSE [exc |-> "none", filters |-> <<IntAtom("user_id", user.id)>>]

\* UserScopedRetriever.get_context_filters
UserScopedRetriever_get_context_filters(database_model, user) ==
    IF database_model \notin UserScopedModels
    THEN [exc |-> "WrongDataManipulator", filters |-> <<>>]
    ELSE [exc |-> "none", filters |-> <<IntAtom("user_id", user.id)>>]

\* UserRetriever.get_context_filters
UserRetriever_get_context_filters(database_model, user) ==
    IF database_model # "User"
    THEN [exc |-> "WrongDataManipulator", filters |-> <<>>]
    ELSE IF user.role = "USER"
         THEN [exc |-> "none", filters |-> <<IntAtom("id", user.id)>>]
         ELSE [exc |-> "none", filters |-> <<>>]

\* The retriever class the factory of a manager selects.
get_context_filters(mgr, user) ==
    IF mgr = "users"
    THEN UserRetriever_get_context_filters(ModelOf(mgr), user)
    ELSE UserScopedRetriever_get_context_filters(ModelOf(mgr), user)

\* A where-clause evaluated on one row.
Matches(row, clause) ==
    IF clause.field \in IntFields
    THEN row[clause.field] = clause.ival
    ELSE row[clause.field] = clause.sval

\* Retriever._add_filters_to_query: the context filters, then the caller's
\* filters (a single clause is wrapped in a list), all chained with where().
Retriever_add_filters_to_query(rows, context_filters, flt) ==
    LET callerFilters ==
            IF flt.kind = "single" THEN <<flt.clause>>
            ELSE IF flt.kind = "list" THEN flt.clauses
            ELSE <<>>
        afterContext ==
            {r \in rows : \A i \in 1..Len(context_filters) :
                              Matches(r, context_filters[i])}
    IN  {r \in afterContext : \A i \in 1..Len(callerFilters) :
                                  Matches(r, callerFilters[i])}

SortKey(row, sort) ==
    IF sort = "id" THEN row.id
    ELSE IF sort = "title" THEN StrRank(row.title)
    ELSE IF sort = "username" THEN StrRank(row.username)
    ELSE 0

\* The orders in which the database may return a set of rows: every
\* enumeration that is non-decreasing in the sort key (order_by(None) leaves
\* the order to the database, as does a tie in the key).
Orderings(rows, sort) ==
    LET n == Cardinality(rows)
    IN  {s \in [1..n -> rows] :
            /\ \A i, j \in 1..n : i # j => s[i] # s[j]
            /\ \A i, j \in 1..n : i < j => SortKey(s[i], sort) <= SortKey(s[j], sort)}

\* offset(start).limit(max_items) on an ordered result
Paginate(s, start, max_items) ==
    LET first == start + 1
        lastIx == IF start + max_items < Len(s) THEN start + max_items ELSE Len(s)
    IN  IF first > Len(s) THEN <<>> ELSE SubSeq(s, first, lastIx)

\* Retriever.retrieve: the results the query can return.
Retriever_retrieve(mgr, user, flt, sort, start, max_items) ==
    LET cf == get_context_filters(mgr, user)
        rows == Retriever_add_filters_to_query(
                    SessionRows(ModelOf(mgr)), cf.filters, flt)
    IN  IF cf.exc # "none"
        THEN {[exc |-> cf.exc, rows |-> <<>>]}
        ELSE {[exc |-> "none",
               rows |-> IF start # NoneInt /\ max_items # NoneInt
                        THEN Paginate(s, start, max_items)
                        ELSE s] : s \in Orderings(rows, sort)}

\* Retriever.count
Retriever_count(mgr, user, flt) ==
    LET cf == get_context_filters(mgr, user)
        rows == Retriever_add_filters_to_query(
                    SessionRows(ModelOf(mgr)), cf.filters, flt)
    IN  IF cf.exc # "none"
        THEN [exc |-> cf.exc, count |-> 0]
        ELSE [exc |-> "none", count |-> Cardinality(rows)]

----------------------------------------------------------------------------
(* Initial state: MyData configured, tables created, create_init_data run. *)

Init ==
    /\ users = SeedUsers
    /\ resources = SeedResources
    /\ ctx = [state |-> "none", user |-> NoUser]
    /\ session = {}
    /\ authCfg = [my_data_object |-> FALSE,
                  service_username |-> NoneStr,
                  service_password |-> NoneStr]
    /\ last = NoCall
    /\ writes = 0
    /\ tokenAuth = NoInstance

----------------------------------------------------------------------------
(* MyData: opening contexts *)

\* User.verify_credentials of the my_model package: the username and the
\* password must match and, when the account has a second factor, the
\* supplied code must be the valid one.
User_verify_credentials(user, username, password, second_factor) ==
    /\ username = user.username
    /\ password = user.password
    /\ user.second_factor # NoneStr => second_factor = "good_code"

\* MyData.get_context: the exception it raises for a user, or "none".
MyData_get_context(user) == "none"

\* MyData.get_context_for_service_user: the service account is looked up
\* by username and role in the database and its password is verified.
MyData_get_context_for_service_user(username, password) ==
    LET found == {u \in users : u.username = username /\ u.role = "SERVICE"}
    IN  IF Cardinality(found) # 1
        THEN [exc |-> "PermissionDenied", user |-> NoUser]
        ELSE LET user == CHOOSE u \in found : TRUE
             IN  IF ~User_verify_credentials(user, username, password, NoneStr)
                 THEN [exc |-> "PermissionDenied", user |-> NoUser]
                 ELSE [exc |-> "none", user |-> user]

Usernames == {u.username : u \in SeedUsers} \cup {"wrong.user"}

Passwords == {u.password : u \in SeedUsers} \cup {"wrong_pw"}

GetContext(user) ==
    /\ Idle
    /\ ctx.state # "open"
    /\ LET exc == MyData_get_context(user)
       IN  /\ ctx' = IF exc = "none"
                     THEN [state |-> "open", user |-> user]
                     ELSE ctx
           /\ last' = [op |-> "get_context", user |-> user,
                       outcome |-> IF exc = "none" THEN "ok" ELSE exc]
    /\ session' = {}
    /\ UNCHANGED <<tokenAuth, users, resources, authCfg, writes>>

GetContextForServiceUser(username, password) ==
    /\ Idle
    /\ ctx.state # "open"
    /\ LET r == MyData_get_context_for_service_user(username, password)
       IN  /\ ctx' = IF r.exc = "none"
                     THEN [state |-> "open", user |-> r.user]
                     ELSE ctx
           /\ last' = [op |-> "get_context_for_service_user", user |-> r.user,
                       outcome |-> IF r.exc = "none" THEN "ok" ELSE r.exc]
    /\ session' = {}
    /\ UNCHANGED <<tokenAuth, users, resources, authCfg, writes>>

----------------------------------------------------------------------------
(* Context: session control *)

\* Context.commit_session -> ContextData.commit_session
CommitSession ==
    /\ Idle
    /\ ctx.state = "open"
    /\ users' = CommittedUsers
    /\ resources' = CommittedResources
    /\ session' = {}
    /\ last' = [op |-> "commit_session", user |-> ctx.user, outcome |-> "ok"]
    /\ UNCHANGED <<tokenAuth, ctx, authCfg, writes>>

\* An abort that leaves the staged writes in the session.
Mutant_AbortSession ==
    /\ Idle
    /\ ctx.state = "open"
    /\ last' = [op |-> "abort_session", user |-> ctx.user,
                discarded |-> session, outcome |-> "ok"]
    /\ UNCHANGED <<tokenAuth, users, resources, ctx, session, authCfg, writes>>

\* Context.abort_session -> ContextData.abort_session (Session.rollback)
AbortSession ==
    /\ Idle
    /\ ctx.state = "open"
    /\ session' = {}
    /\ last' = [op |-> "abort_session", user |-> ctx.user,
                discarded |-> session, outcome |-> "ok"]
    /\ UNCHANGED <<tokenAuth, users, resources, ctx, authCfg, writes>>

\* Context.close_session -> ContextData.close_session (Session.close)
CloseSession ==
    /\ Idle
    /\ ctx.state = "open"
    /\ session' = {}
    /\ ctx' = [ctx EXCEPT !.state = "closed"]
    /\ last' = [op |-> "close_session", user |-> ctx.user,
                staged |-> session, outcome |-> "ok"]
    /\ UNCHANGED <<tokenAuth, users, resources, authCfg, writes>>

\* An exit that rolls the session back when the body of the with-block
\* raised.
Mutant_Exit(exception_type, commit_raises) ==
    /\ Idle
    /\ ctx.state = "open"
    /\ users' = IF commit_raises \/ exception_type
                THEN users ELSE CommittedUsers
    /\ resources' = IF commit_raises \/ exception_type
                    THEN resources ELSE CommittedResources
    /\ session' = {}
    /\ ctx' = [ctx EXCEPT !.state = IF commit_raises THEN "unreleased"
                                    ELSE "closed"]
    /\ last' = [op |-> "exit", user |-> ctx.user,
                exception_type |-> exception_type,
                staged |-> session,
                closes |-> IF commit_raises THEN 0 ELSE 1,
                outcome |-> IF commit_raises THEN "CommitError"
                            ELSE IF exception_type THEN "BodyException"
                            ELSE "ok"]
    /\ UNCHANGED <<tokenAuth, authCfg, writes>>

\* Context.__exit__: commit_session, then close_session, then the return of
\* `exception_type is None`.  exception_type tells whether the body of the
\* with-block raised; commit_raises whether Session.commit raises (a database
\* error), in which case close_session is not reached and the context is
\* left with a session that was never closed.  The outcome is what the
\* caller of the with-block gets.
Exit(exception_type, commit_raises) ==
    /\ Idle
    /\ ctx.state = "open"
    /\ users' = IF commit_raises THEN users ELSE CommittedUsers
    /\ resources' = IF commit_raises THEN resources ELSE CommittedResources
    /\ session' = {}
    /\ ctx' = [ctx EXCEPT !.state = IF commit_raises THEN "unreleased"
                                    ELSE "closed"]
    /\ last' = [op |-> "exit", user |-> ctx.user,
                exception_type |-> exception_type,
                staged |-> session,
                closes |-> IF commit_raises THEN 0 ELSE 1,
                outcome |-> IF commit_raises THEN "CommitError"
                            ELSE IF exception_type THEN "BodyException"
                            ELSE "ok"]
    /\ UNCHANGED <<tokenAuth, authCfg, writes>>

----------------------------------------------------------------------------
(* ResourceManager.retrieve and ResourceManager.count *)

\* The where-clauses a caller passes for a manager.
Clauses(mgr) ==
    IF mgr = "users"
    THEN {IntAtom("id", 1), StrAtom("username", "normal.user.1")}
    ELSE {IntAtom("user_id", 1), StrAtom("title", "a")}

NoFilter == [kind |-> "none"]

Filters(mgr) ==
    {NoFilter}
    \cup {[kind |-> "single", clause |-> c] : c \in Clauses(mgr)}
    \cup {[kind |-> "list", clauses |-> <<c, d>>] :
              c \in {IntAtom("id", 1), IntAtom("user_id", 1)} \cap Clauses(mgr),
              d \in {StrAtom("username", "normal.user.1"), StrAtom("title", "a")}
                        \cap Clauses(mgr)}

Sorts(mgr) ==
    IF mgr = "users" THEN {NoneStr, "id"} ELSE {NoneStr, "title"}

\* The `start` and `max_items` a caller passes: none, only one of them, or
\* both.
Pages ==
    {<<NoneInt, NoneInt>>, <<1, NoneInt>>, <<NoneInt, 1>>}
    \cup ((0..MaxStart) \X (1..MaxItems))

Retrieve(mgr, flt, sort, start, max_items) ==
    /\ Idle
    /\ ctx.state = "open"
    /\ \E res \in Retriever_retrieve(mgr, ctx.user, flt, sort, start, max_items) :
           last' = [op |-> "retrieve", mgr |-> mgr, user |-> ctx.user,
                    flt |-> flt, sort |-> sort, start |-> start,
                    max_items |-> max_items,
                    outcome |-> IF res.exc = "none" THEN "ok" ELSE res.exc,
                    rows |-> res.rows]
    /\ UNCHANGED <<tokenAuth, users, resources, ctx, session, authCfg, writes>>

Count(mgr, flt) ==
    /\ Idle
    /\ ctx.state = "open"
    /\ LET res == Retriever_count(mgr, ctx.user, flt)
       IN  last' = [op |-> "count", mgr |-> mgr, user |-> ctx.user,
                    flt |-> flt,
                    outcome |-> IF res.exc = "none" THEN "ok" ELSE res.exc,
                    count |-> res.count]
    /\ UNCHANGED <<tokenAuth, users, resources, ctx, session, authCfg, writes>>

----------------------------------------------------------------------------
(* Model objects a caller passes to create, update and delete *)

\* A model instance in the caller's hands: its class, its fields and whether
\* it carries the hidden DB model it was retrieved with.
Obj(kind, id, user_id, title, second_factor, hidden) ==
    [kind |-> kind, id |-> id, user_id |-> user_id, title |-> title,
     second_factor |-> second_factor, hidden |-> hidden]

ResourceObj(r) == Obj(r.kind, r.id, r.user_id, r.title, NoneStr, TRUE)

UserObj(u) == Obj("User", u.id, NoneId, NoneStr, u.second_factor, TRUE)

\* The row a model instance was retrieved from.
Ref(o) == <<o.kind, o.id>>

\* The owner the database holds for a model instance (NoneId when the
\* instance is not a row of a user-scoped table).
PersistedOwner(o) ==
    IF \E r \in resources : r.kind = o.kind /\ r.id = o.id
    THEN (CHOOSE r \in resources : r.kind = o.kind /\ r.id = o.id).user_id
    ELSE NoneId

\* The non-empty lists of at most MaxBatch instances of distinct rows.
Batches(cands) ==
    UNION { {b \in [1..n -> cands] :
                \A i, j \in 1..n : i # j => Ref(b[i]) # Ref(b[j])} :
            n \in 1..MaxBatch }

\* The index of the first element of a list that satisfies Bad, or 0.
FirstBad(bad) ==
    IF \E i \in DOMAIN bad : bad[i]
    THEN CHOOSE i \in DOMAIN bad : bad[i] /\ \A j \in 1..(i - 1) : ~bad[j]
    ELSE 0

----------------------------------------------------------------------------
(* Creators *)

\* UserSpecificCreator.get_updated_model: the DB model is built from the
\* fields of the given model.
UserSpecificCreator_get_updated_model(user, data) ==
    IF user = NoUser
    THEN [exc |-> "PermissionDenied", model |-> data]
    ELSE [exc |-> "none", model |-> data]

\* A user creator that refuses only the USER role.
Mutant_UserCreator_get_updated_model(user, data) ==
    IF user = NoUser
    THEN [exc |-> "PermissionDenied", model |-> data]
    ELSE IF user.role = "USER"
         THEN [exc |-> "PermissionDenied", model |-> data]
         ELSE [exc |-> "none", model |-> data]

\* UserCreator.get_updated_model
UserCreator_get_updated_model(user, data) ==
    IF user = NoUser
    THEN [exc |-> "PermissionDenied", model |-> data]
    ELSE IF user.role # "ROOT"
         THEN [exc |-> "PermissionDenied", model |-> data]
         ELSE [exc |-> "none", model |-> data]

\* The creator class of a manager.
get_updated_model(mgr, user, data) ==
    IF mgr = "users"
    THEN UserCreator_get_updated_model(user, data)
    ELSE UserSpecificCreator_get_updated_model(user, data)

\* Creator.create: type check of every model, conversion of every model,
\* and then the unfinished body: nothing is added to a session.
Creator_create(mgr, user, models) ==
    LET n == Len(models)
        WrongType(i) == models[i].kind # ModelOf(mgr)
        Denied(i) == get_updated_model(mgr, user, models[i]).exc # "none"
        db_models == [i \in 1..n |-> get_updated_model(mgr, user, models[i]).model]
    IN  IF FirstBad([i \in 1..n |-> WrongType(i)]) # 0
        THEN [exc |-> "WrongModelException", db_models |-> <<>>, staged |-> <<>>]
        ELSE IF FirstBad([i \in 1..n |-> Denied(i)]) # 0
        THEN [exc |-> get_updated_model(mgr, user,
                          models[FirstBad([i \in 1..n |-> Denied(i)])]).exc,
              db_models |-> <<>>, staged |-> <<>>]
        ELSE [exc |-> "NotImplementedError", db_models |-> db_models,
              staged |-> <<>>]

\* The new models a caller passes to create: a new User, or a user-scoped
\* model with the owner unset or set to the id of an identity.
NewModels(kind) ==
    IF kind = "User"
    THEN {Obj("User", NoneId, NoneId, NoneStr, NoneStr, FALSE)}
    ELSE {Obj(kind, NoneId, o, "b", NoneStr, FALSE) :
              o \in {NoneId, 1, 2}}

\* What a caller passes to the create of a manager: new models of the
\* manager's class and a model of another class.
CreateCands(mgr) ==
    NewModels(ModelOf(mgr))
    \cup (IF mgr = "tags" THEN NewModels("User")
          ELSE IF mgr = "users"
               THEN {Obj("Tag", NoneId, NoneId, "b", NoneStr, FALSE)}
               ELSE {})

\* The non-empty lists of at most MaxBatch new models.
NewBatches(cands) == UNION {[1..n -> cands] : n \in 1..MaxBatch}

Create(mgr, models) ==
    /\ Idle
    /\ ctx.state = "open"
    /\ LET res == Creator_create(mgr, ctx.user, models)
       IN  last' = [op |-> "create", mgr |-> mgr, user |-> ctx.user,
                    models |-> models,
                    outcome |-> IF res.exc = "none" THEN "ok" ELSE res.exc,
                    db_models |-> res.db_models, staged |-> res.staged]
    /\ UNCHANGED <<tokenAuth, users, resources, ctx, session, authCfg, writes>>

----------------------------------------------------------------------------
(* Updaters *)

\* Updater.get_db_model: the hidden DB model of the given model, with every
\* field overwritten by the field of the given model.
Updater_get_db_model(data) ==
    IF data.hidden
    THEN [exc |-> "none", model |-> data]
    ELSE [exc |-> "InvalidModelException", model |-> data]

\* UserSpecificUpdater.get_db_model
UserSpecificUpdater_get_db_model(user, data) ==
    LET r == Updater_get_db_model(data)
    IN  IF r.exc # "none" THEN r
        ELSE IF r.model.user_id = user.id THEN r
        ELSE [exc |-> "PermissionDenied", model |-> r.model]

\* A user updater that accepts every record in a context of a USER identity.
Mutant_UserUpdater_get_db_model(user, data) ==
    LET r == Updater_get_db_model(data)
    IN  IF r.exc # "none" THEN r
        ELSE IF user.role \in {"ROOT", "USER"} \/ r.model.id = user.id THEN r
        ELSE [exc |-> "PermissionDenied", model |-> r.model]

\* UserUpdater.get_db_model
UserUpdater_get_db_model(user, data) ==
    LET r == Updater_get_db_model(data)
    IN  IF r.exc # "none" THEN r
        ELSE IF user.role = "ROOT" \/ r.model.id = user.id THEN r
        ELSE [exc |-> "PermissionDenied", model |-> r.model]

\* The updater class of a manager.
get_db_model(mgr, user, data) ==
    IF mgr = "users"
    THEN UserUpdater_get_db_model(user, data)
    ELSE UserSpecificUpdater_get_db_model(user, data)

\* Updater.update: every model is converted first; then the DB models are
\* added to a session of their own, which is committed at once.
Updater_update(mgr, user, models) ==
    LET n == Len(models)
        Failed(i) == get_db_model(mgr, user, models[i]).exc # "none"
    IN  IF FirstBad([i \in 1..n |-> Failed(i)]) # 0
        THEN [exc |-> get_db_model(mgr, user, models[FirstBad([i \in 1..n |-> Failed(i)])]).exc,
              db_models |-> <<>>]
        ELSE [exc |-> "none",
              db_models |-> [i \in 1..n |-> get_db_model(mgr, user, models[i]).model]]

\* The User table after the DB models of a list are written to it.
UsersAfterUpdate(db_models) ==
    {IF \E i \in 1..Len(db_models) : Ref(db_models[i]) = <<"User", u.id>>
     THEN LET m == db_models[CHOOSE i \in 1..Len(db_models) :
                                 Ref(db_models[i]) = <<"User", u.id>>]
          IN  [u EXCEPT !.second_factor = m.second_factor]
     ELSE u : u \in users}

\* The user-scoped tables after the DB models of a list are written to them.
ResourcesAfterUpdate(db_models) ==
    {IF \E i \in 1..Len(db_models) : Ref(db_models[i]) = <<r.kind, r.id>>
     THEN LET m == db_models[CHOOSE i \in 1..Len(db_models) :
                                 Ref(db_models[i]) = <<r.kind, r.id>>]
          IN  [r EXCEPT !.user_id = m.user_id, !.title = m.title]
     ELSE r : r \in resources}

\* The instances a caller holds of the rows of a manager's table: as they
\* were retrieved, with one field changed, or (the tag of root, the API
\* token of normal.user.2) with the owner field overwritten by the caller's
\* own id.
UpdateCands(mgr, user) ==
    IF mgr = "users"
    THEN {[UserObj(u) EXCEPT !.second_factor = "totp_secret"] :
              u \in {x \in users : x.id \in {1, 2, user.id}}}
         \cup {[UserObj(u) EXCEPT !.hidden = FALSE] : u \in {x \in users : x.id = 2}}
    ELSE LET rows == {r \in resources : r.kind = ModelOf(mgr)}
         IN  {[ResourceObj(r) EXCEPT !.title = "b"] : r \in rows}
             \cup {[ResourceObj(r) EXCEPT !.user_id = user.id] :
                       r \in {x \in rows : x.id \in {1, 4}}}

\* The lists of instances a caller passes to update: every single instance,
\* and the longer lists of instances retitled "b".
UpdateBatches(mgr, user) ==
    {b \in Batches(UpdateCands(mgr, user)) :
        Len(b) > 1 => \A i \in 1..Len(b) :
                          /\ b[i].hidden
                          /\ b[i].kind = "User" => b[i].second_factor = "totp_secret"
                          /\ b[i].kind # "User" =>
                                 b[i].title = "b" /\ b[i].user_id = PersistedOwner(b[i])}

Update(mgr, models) ==
    /\ Idle
    /\ ctx.state = "open"
    /\ writes < MaxWrites
    /\ LET res == Updater_update(mgr, ctx.user, models)
       IN  /\ users' = IF res.exc = "none" THEN UsersAfterUpdate(res.db_models)
                       ELSE users
           /\ resources' = IF res.exc = "none"
                           THEN ResourcesAfterUpdate(res.db_models)
                           ELSE resources
           /\ writes' = IF res.exc = "none" THEN writes + 1 ELSE writes
           /\ last' = [op |-> "update", mgr |-> mgr, user |-> ctx.user,
                       models |-> models,
                       owners |-> [i \in 1..Len(models) |-> PersistedOwner(models[i])],
                       outcome |-> IF res.exc = "none" THEN "ok" ELSE res.exc]
    /\ UNCHANGED <<tokenAuth, ctx, session, authCfg>>

----------------------------------------------------------------------------
(* Deleters *)

\* DataManipulator._validate_user_scoped_models
DataManipulator_validate_user_scoped_models(database_model, user, models) ==
    LET n == Len(models)
        Bad(i) == \/ models[i].kind # database_model
                  \/ models[i].user_id # user.id
    IN  IF database_model \notin UserScopedModels
        THEN "WrongDataManipulator"
        ELSE IF FirstBad([i \in 1..n |-> Bad(i)]) # 0 THEN "PermissionDenied"
        ELSE "none"

\* Deleter.delete: the rows a session gets staged for deletion.
Deleter_delete(models) == {Ref(models[i]) : i \in 1..Len(models)}

\* A user-scoped deleter that stages every element that passes on its own
\* before it raises for the list.
Mutant_UserScopedDeleter_delete(database_model, user, models) ==
    LET exc == DataManipulator_validate_user_scoped_models(
                   database_model, user, models)
        passing == {i \in 1..Len(models) :
                       DataManipulator_validate_user_scoped_models(
                           database_model, user, <<models[i]>>) = "none"}
    IN  [exc |-> exc, staged |-> {Ref(models[i]) : i \in passing}]

\* UserScopedDeleter.delete
UserScopedDeleter_delete(database_model, user, models) ==
    LET exc == DataManipulator_validate_user_scoped_models(
                   database_model, user, models)
    IN  IF exc # "none"
        THEN [exc |-> exc, staged |-> {}]
        ELSE [exc |-> "none", staged |-> Deleter_delete(models)]

\* A user deleter that does not look for the record of the identity itself.
Mutant_UserDeleter_delete(database_model, user, models) ==
    LET n == Len(models)
        Bad(i) == models[i].kind # database_model
    IN  IF database_model # "User"
        THEN [exc |-> "WrongDataManipulator", staged |-> {}]
        ELSE IF user.role = "USER"
        THEN [exc |-> "PermissionDenied", staged |-> {}]
        ELSE IF FirstBad([i \in 1..n |-> Bad(i)]) # 0
        THEN [exc |-> "PermissionDenied", staged |-> {}]
        ELSE [exc |-> "none", staged |-> Deleter_delete(models)]

\* UserDeleter.delete
UserDeleter_delete(database_model, user, models) ==
    LET n == Len(models)
        Bad(i) == \/ models[i].kind # database_model
                  \/ user.id = models[i].id
    IN  IF database_model # "User"
        THEN [exc |-> "WrongDataManipulator", staged |-> {}]
        ELSE IF user.role = "USER"
        THEN [exc |-> "PermissionDenied", staged |-> {}]
        ELSE IF FirstBad([i \in 1..n |-> Bad(i)]) # 0
        THEN [exc |-> "PermissionDenied", staged |-> {}]
        ELSE [exc |-> "none", staged |-> Deleter_delete(models)]

\* The deleter class of a manager.
Manager_delete(mgr, user, models) ==
    IF mgr = "users"
    THEN UserDeleter_delete(ModelOf(mgr), user, models)
    ELSE UserScopedDeleter_delete(ModelOf(mgr), user, models)

\* The instances a caller passes to delete: rows of any table as they were
\* retrieved, or (the tag of root, the API token of normal.user.2) with the
\* owner field overwritten by the caller's own id.
DeleteCands(mgr, user) ==
    IF mgr = "users"
    THEN {UserObj(u) : u \in users}
         \cup {ResourceObj(r) : r \in {x \in resources : x.id = 1}}
    ELSE {ResourceObj(r) : r \in resources}
         \cup {[ResourceObj(r) EXCEPT !.user_id = user.id] :
                   r \in {x \in resources : x.id \in {1, 4}}}
         \cup {UserObj(u) : u \in {x \in users : x.id = 2}}

\* The lists of instances a caller passes to delete: every single instance,
\* and the longer lists of instances as they were retrieved.
DeleteBatches(mgr, user) ==
    {b \in Batches(DeleteCands(mgr, user)) :
        Len(b) > 1 => \A i \in 1..Len(b) : b[i].user_id = PersistedOwner(b[i])}

Delete(mgr, models) ==
    /\ Idle
    /\ ctx.state = "open"
    /\ writes < MaxWrites
    /\ LET res == Manager_delete(mgr, ctx.user, models)
       IN  /\ session' = session \cup res.staged
           /\ writes' = IF res.exc = "none" THEN writes + 1 ELSE writes
           /\ last' = [op |-> "delete", mgr |-> mgr, user |-> ctx.user,
                       models |-> models,
                       owners |-> [i \in 1..Len(models) |-> PersistedOwner(models[i])],
                       outcome |-> IF res.exc = "none" THEN "ok" ELSE res.exc]
    /\ UNCHANGED <<tokenAuth, users, resources, ctx, authCfg>>

----------------------------------------------------------------------------
(* Strategies constructed directly and bound to a model class *)

\* The two families of strategies: for user-scoped resources and for the
\* User model.
Strategies == {"UserScoped", "User"}

Operations == {"retrieve", "create", "update", "delete"}

\* get_context_filters of the retriever class of a family.
Strategy_get_context_filters(strategy, database_model, user) ==
    IF strategy = "User"
    THEN UserRetriever_get_context_filters(database_model, user)
    ELSE UserScopedRetriever_get_context_filters(database_model, user)

\* Creator.create of the creator class of a family, constructed with
\* `model` = database_model: the type check of the models against the bound
\* model, the conversion by the class, the unfinished body.
Strategy_create(strategy, database_model, user, models) ==
    LET n == Len(models)
        Convert(i) == IF strategy = "User"
                      THEN UserCreator_get_updated_model(user, models[i])
                      ELSE UserSpecificCreator_get_updated_model(user, models[i])
        WrongType(i) == models[i].kind # database_model
        Denied(i) == Convert(i).exc # "none"
    IN  IF FirstBad([i \in 1..n |-> WrongType(i)]) # 0
        THEN [exc |-> "WrongModelException", db_models |-> <<>>]
        ELSE IF FirstBad([i \in 1..n |-> Denied(i)]) # 0
        THEN [exc |-> Convert(FirstBad([i \in 1..n |-> Denied(i)])).exc,
              db_models |-> <<>>]
        ELSE [exc |-> "NotImplementedError", db_models |-> <<>>]

\* UserSpecificUpdater.get_db_model for a model of any class: the DB model
\* of a User has no attribute `user_id`.
UserSpecificUpdater_get_db_model_any(user, data) ==
    IF Updater_get_db_model(data).exc = "none" /\ data.kind = "User"
    THEN [exc |-> "AttributeError", model |-> data]
    ELSE UserSpecificUpdater_get_db_model(user, data)

\* Updater.update of the updater class of a family; the model class the
\* updater was constructed with is not read.
Strategy_update(strategy, database_model, user, models) ==
    LET n == Len(models)
        Convert(i) == IF strategy = "User"
                      THEN UserUpdater_get_db_model(user, models[i])
                      ELSE UserSpecificUpdater_get_db_model_any(user, models[i])
        Failed(i) == Convert(i).exc # "none"
    IN  IF FirstBad([i \in 1..n |-> Failed(i)]) # 0
        THEN [exc |-> Convert(FirstBad([i \in 1..n |-> Failed(i)])).exc,
              db_models |-> <<>>]
        ELSE [exc |-> "none", db_models |-> [i \in 1..n |-> Convert(i).model]]

\* delete of the deleter class of a family.
Strategy_delete(strategy, database_model, user, models) ==
    IF strategy = "User"
    THEN UserDeleter_delete(database_model, user, models)
    ELSE UserScopedDeleter_delete(database_model, user, models)

\* The instances of a model class a caller hands to a strategy bound to
\* that class: a new one for create, retrieved ones otherwise.
StrategyCands(operation, database_model) ==
    IF operation = "create"
    THEN {m \in NewModels(database_model) : m.user_id = NoneId}
    ELSE IF database_model = "User"
    THEN {UserObj(u) : u \in users}
    ELSE {ResourceObj(r) : r \in {x \in resources : x.kind = database_model}}

\* A strategy of a family is constructed for a model class and the
\* ContextData of a user, and used once.
UseStrategy(operation, strategy, database_model, user, model) ==
    /\ Idle
    /\ LET models == <<model>>
           flt == Strategy_get_context_filters(strategy, database_model, user)
           cre == Strategy_create(strategy, database_model, user, models)
           upd == Strategy_update(strategy, database_model, user, models)
           del == Strategy_delete(strategy, database_model, user, models)
           exc == CASE operation = "retrieve" -> flt.exc
                    [] operation = "create" -> cre.exc
                    [] operation = "update" -> upd.exc
                    [] operation = "delete" -> del.exc
       IN  /\ last' = [op |-> "use_strategy", operation |-> operation,
                       strategy |-> strategy,
                       database_model |-> database_model, user |-> user,
                       model |-> model,
                       outcome |-> IF exc = "none" THEN "ok" ELSE exc]
           /\ users' = IF operation = "update"
                       THEN UsersAfterUpdate(upd.db_models) ELSE users
           /\ resources' = IF operation = "update"
                           THEN ResourcesAfterUpdate(upd.db_models)
                           ELSE resources
           /\ session' = IF operation = "delete"
                         THEN session \cup del.staged ELSE session
    /\ writes' = IF operation \in {"update", "delete"}
                 THEN writes + 1 ELSE writes
    /\ UNCHANGED <<tokenAuth, ctx, authCfg>>

----------------------------------------------------------------------------
(* Authenticators *)

\* UserAuthenticator.is_valid
UserAuthenticator_is_valid ==
    /\ authCfg.my_data_object
    /\ authCfg.service_username # NoneStr
    /\ authCfg.service_password # NoneStr

\* Authenticator._raise_for_invalid_my_data: TRUE when it raises.
Authenticator_raise_for_invalid_my_data(attached) ==
    ~attached \/ ~UserAuthenticator_is_valid

\* ServiceContext.get_user_account_by_username
ServiceContext_get_user_account_by_username(username) ==
    LET found == {u \in users : u.username = username}
    IN  IF Cardinality(found) = 1
        THEN [exc |-> "none", user |-> CHOOSE u \in found : TRUE]
        ELSE [exc |-> "UnknownUserAccount", user |-> NoUser]

\* A credentials authenticator that takes a second factor for an account
\* that has none.
Mutant_CredentialsAuthenticator_authenticate(attached, username, password, second_factor) ==
    IF Authenticator_raise_for_invalid_my_data(attached)
    THEN [exc |-> "AuthenticatorNotConfigured", user |-> NoUser]
    ELSE
    LET svc == MyData_get_context_for_service_user(
                   authCfg.service_username, authCfg.service_password)
        acc == ServiceContext_get_user_account_by_username(username)
    IN  IF svc.exc # "none"
        THEN [exc |-> svc.exc, user |-> NoUser]
        ELSE IF acc.exc # "none"
        THEN [exc |-> "AuthenticationFailed", user |-> NoUser]
        ELSE IF /\ User_verify_credentials(acc.user, username, password,
                                           second_factor)
                /\ acc.user.role # "SERVICE"
        THEN [exc |-> "none", user |-> acc.user]
        ELSE [exc |-> "AuthenticationFailed", user |-> NoUser]

\* CredentialsAuthenticator.authenticate
CredentialsAuthenticator_authenticate(attached, username, password, second_factor) ==
    IF Authenticator_raise_for_invalid_my_data(attached)
    THEN [exc |-> "AuthenticatorNotConfigured", user |-> NoUser]
    ELSE
    LET svc == MyData_get_context_for_service_user(
                   authCfg.service_username, authCfg.service_password)
        acc == ServiceContext_get_user_account_by_username(username)
    IN  IF svc.exc # "none"
        THEN [exc |-> svc.exc, user |-> NoUser]
        ELSE IF acc.exc # "none"
        THEN [exc |-> "AuthenticationFailed", user |-> NoUser]
        ELSE IF acc.user.second_factor = NoneStr /\ second_factor # NoneStr
        THEN [exc |-> "AuthenticationFailed", user |-> NoUser]
        ELSE IF /\ User_verify_credentials(acc.user, username, password,
                                           second_factor)
                /\ acc.user.role # "SERVICE"
        THEN [exc |-> "none", user |-> acc.user]
        ELSE [exc |-> "AuthenticationFailed", user |-> NoUser]

\* UserAuthenticator.configure
Configure(service_username, service_password) ==
    /\ Idle
    /\ authCfg' = [my_data_object |-> TRUE,
                   service_username |-> service_username,
                   service_password |-> service_password]
    /\ last' = [op |-> "configure", outcome |-> "ok"]
    /\ UNCHANGED <<tokenAuth, users, resources, ctx, session, writes>>

SecondFactors == {NoneStr, "good_code", "bad_code"}

\* UserAuthenticator.authenticate with a CredentialsAuthenticator, which is
\* attached to the UserAuthenticator or constructed on its own.
Authenticate(attached, username, password, second_factor) ==
    /\ Idle
    /\ LET res == CredentialsAuthenticator_authenticate(
                      attached, username, password, second_factor)
       IN  last' = [op |-> "authenticate", attached |-> attached,
                    username |-> username, password |-> password,
                    second_factor |-> second_factor,
                    outcome |-> IF res.exc = "none" THEN "ok" ELSE res.exc,
                    result |-> res.user]
    /\ UNCHANGED <<tokenAuth, users, resources, ctx, session, authCfg, writes>>

----------------------------------------------------------------------------
(* API tokens: the APITokenAuthorizer and the authorizers it delegates to *)

\* The scope names a long-lived token can be granted.
ScopeNames == {"users.retrieve", "users.create"}

\* A row of the APIToken table with the fields the authorizers read; the
\* token string is unique in the table.
TokenRow(user_id, api_client_id, enabled, expires, token_scopes) ==
    [id |-> 5, kind |-> "APIToken", user_id |-> user_id, title |-> "a",
     token |-> "token_1", api_client_id |-> api_client_id,
     enabled |-> enabled, expires |-> expires,
     token_scopes |-> token_scopes]

\* Python None where an APIToken object is expected.
NoToken ==
    [id |-> NoneId, kind |-> "APIToken", user_id |-> NoneId,
     title |-> NoneStr, token |-> NoneStr, api_client_id |-> NoneId,
     enabled |-> FALSE, expires |-> 0, token_scopes |-> {}]

\* The token rows the database can hold: short-lived (no API client) or
\* long-lived, enabled or not, expiring at one of three instants (seconds).
TokenRows ==
    {TokenRow(3, c, e, x, sc) :
        c \in {NoneId, 1}, e \in BOOLEAN, x \in {100, 101, 102},
        sc \in SUBSET ScopeNames}

\* The database with one stored API token.
InitToken ==
    /\ users = SeedUsers
    /\ \E row \in TokenRows : resources = {row}
    /\ ctx = [state |-> "none", user |-> NoUser]
    /\ session = {}
    /\ authCfg = [my_data_object |-> FALSE,
                  service_username |-> NoneStr,
                  service_password |-> NoneStr]
    /\ last = NoCall
    /\ writes = 0
    /\ tokenAuth = NoInstance

\* MyData.get_context_for_service_user called without arguments, as the
\* authorizer calls it: the service context of the bridge identity that is
\* configured once at process start.
MyData_get_context_for_service_user_configured ==
    MyData_get_context_for_service_user("service.user", "service_password")

\* ServiceContext.get_api_token_object_by_api_token
ServiceContext_get_api_token_object_by_api_token(api_token) ==
    LET api_tokens == {r \in resources :
                           r.kind = "APIToken" /\ r.token = api_token}
    IN  IF Cardinality(api_tokens) = 1
        THEN [exc |-> "none", token |-> CHOOSE r \in api_tokens : TRUE]
        ELSE [exc |-> "UnknownUserAccount", token |-> NoToken]

\* ServiceContext.get_user_account_by_api_token: the `user` relationship of
\* the token object.
ServiceContext_get_user_account_by_api_token(api_token) ==
    LET res == ServiceContext_get_api_token_object_by_api_token(api_token)
    IN  IF res.exc # "none"
        THEN [exc |-> res.exc, user |-> NoUser]
        ELSE [exc |-> "none",
              user |-> CHOOSE u \in users : u.id = res.token.user_id]

\* `not self._api_token_str`: None and the empty string.
Falsy(api_token_str) == api_token_str \in {NoneStr, ""}

\* APITokenAuthorizer._get_user (and the `user` property)
APITokenAuthorizer_get_user(api_token_str) ==
    IF Falsy(api_token_str)
    THEN NoUser
    ELSE ServiceContext_get_user_account_by_api_token(api_token_str).user

\* APITokenAuthorizer._get_api_token (and the `api_token` property)
APITokenAuthorizer_get_api_token(api_token_str) ==
    IF Falsy(api_token_str)
    THEN NoToken
    ELSE ServiceContext_get_api_token_object_by_api_token(api_token_str).token

\* APITokenAuthorizer.is_valid_user
APITokenAuthorizer_is_valid_user(api_token_str) ==
    APITokenAuthorizer_get_user(api_token_str) # NoUser

\* A long-lived check that holds for every resolved token.
Mutant_APITokenAuthorizer_is_long_lived_token(api_token_str) ==
    APITokenAuthorizer_get_api_token(api_token_str) # NoToken

\* APITokenAuthorizer.is_long_lived_token
APITokenAuthorizer_is_long_lived_token(api_token_str) ==
    LET api_token == APITokenAuthorizer_get_api_token(api_token_str)
    IN  IF api_token = NoToken THEN FALSE
        ELSE api_token.api_client_id # NoneId

\* A short-lived check that reads the API client of a token that was not
\* resolved.
Mutant_APITokenAuthorizer_is_short_lived_token(api_token_str) ==
    APITokenAuthorizer_get_api_token(api_token_str).api_client_id = NoneId

\* APITokenAuthorizer.is_short_lived_token
APITokenAuthorizer_is_short_lived_token(api_token_str) ==
    LET api_token == APITokenAuthorizer_get_api_token(api_token_str)
    IN  IF api_token = NoToken THEN FALSE
        ELSE api_token.api_client_id = NoneId

\* `api_token.expires > datetime.utcnow()`
APIToken_expires_after(api_token, utc_now) == api_token.expires > utc_now

\* APITokenAuthorizer.is_not_expired
APITokenAuthorizer_is_not_expired(api_token_str, utc_now) ==
    LET api_token == APITokenAuthorizer_get_api_token(api_token_str)
    IN  IF api_token # NoToken
        THEN APIToken_expires_after(api_token, utc_now)
        ELSE FALSE

\* APITokenAuthorizer.is_enabled
APITokenAuthorizer_is_enabled(api_token_str) ==
    LET api_token == APITokenAuthorizer_get_api_token(api_token_str)
    IN  IF api_token # NoToken THEN api_token.enabled ELSE FALSE

\* A validity check that leaves out is_enabled.
Mutant_APITokenAuthorizer_is_valid_token(api_token_str, utc_now) ==
    /\ APITokenAuthorizer_is_valid_user(api_token_str)
    /\ APITokenAuthorizer_is_not_expired(api_token_str, utc_now)

\* APITokenAuthorizer.is_valid_token
APITokenAuthorizer_is_valid_token(api_token_str, utc_now) ==
    /\ APITokenAuthorizer_is_valid_user(api_token_str)
    /\ APITokenAuthorizer_is_not_expired(api_token_str, utc_now)
    /\ APITokenAuthorizer_is_enabled(api_token_str)

\* An authorizer for logged-off users that lets a disabled token pass.
Mutant_InvalidTokenAuthorizer_authorize(attached, api_token_str) ==
    IF /\ attached
       /\ APITokenAuthorizer_is_valid_user(api_token_str)
       /\ APITokenAuthorizer_is_enabled(api_token_str)
    THEN "AuthorizationFailed"
    ELSE "none"

\* InvalidTokenAuthorizer.authorize: the exception it raises, or "none".
\* `attached` tells whether the authorizer was given to an
\* APITokenAuthorizer.
InvalidTokenAuthorizer_authorize(attached, api_token_str) ==
    IF attached /\ APITokenAuthorizer_is_valid_user(api_token_str)
    THEN "AuthorizationFailed"
    ELSE "none"

\* ValidTokenAuthorizer.authorize
ValidTokenAuthorizer_authorize(attached, api_token_str, utc_now) ==
    IF ~attached \/ ~APITokenAuthorizer_is_valid_token(api_token_str, utc_now)
    THEN "AuthorizationFailed"
    ELSE "none"

\* A short-lived authorizer that stops after the check of its base class.
Mutant_ShortLivedTokenAuthorizer_authorize(attached, api_token_str, utc_now) ==
    ValidTokenAuthorizer_authorize(attached, api_token_str, utc_now)

\* ShortLivedTokenAuthorizer.authorize
ShortLivedTokenAuthorizer_authorize(attached, api_token_str, utc_now) ==
    IF ValidTokenAuthorizer_authorize(attached, api_token_str, utc_now) # "none"
    THEN ValidTokenAuthorizer_authorize(attached, api_token_str, utc_now)
    ELSE IF ~attached \/ ~APITokenAuthorizer_is_short_lived_token(api_token_str)
    THEN "AuthorizationFailed"
    ELSE "none"

\* The characters of the strings given as `required_scopes`.
Chars(str) ==
    CASE str = "" -> {}
      [] str = "users.retrieve" -> {"u", "s", "e", "r", ".", "t", "i", "v"}
      [] str = "users.create" -> {"u", "s", "e", "r", ".", "c", "a", "t"}

\* `required_scopes` as the caller gives it: a list of scope names or one
\* string.
ScopeList(names) == [type |-> "list", names |-> names, str |-> ""]

ScopeStr(str) == [type |-> "str", names |-> {}, str |-> str]

\* `for allowed_scope in self._required_scopes`: the elements of a list,
\* the characters of a string.
IterationOf(required_scopes) ==
    IF required_scopes.type = "list"
    THEN required_scopes.names
    ELSE Chars(required_scopes.str)

\* APIScopeAuthorizer.authorize
APIScopeAuthorizer_authorize(attached, api_token_str, utc_now, required_scopes, allow_short_lived) ==
    LET api_token == APITokenAuthorizer_get_api_token(api_token_str)
    IN  IF ValidTokenAuthorizer_authorize(attached, api_token_str, utc_now)
               # "none"
        THEN ValidTokenAuthorizer_authorize(attached, api_token_str, utc_now)
        ELSE IF attached /\ api_token # NoToken
                 /\ APITokenAuthorizer_is_long_lived_token(api_token_str)
        THEN IF \E allowed_scope \in IterationOf(required_scopes) :
                    allowed_scope \notin api_token.token_scopes
             THEN "AuthorizationFailed"
             ELSE "none"
        ELSE IF attached /\ api_token # NoToken
                 /\ APITokenAuthorizer_is_short_lived_token(api_token_str)
                 /\ allow_short_lived
        THEN "none"
        ELSE "AuthorizationFailed"

Authorizers == {"InvalidTokenAuthorizer", "ValidTokenAuthorizer",
                "ShortLivedTokenAuthorizer", "APIScopeAuthorizer"}

\* The bearer tokens of a request: none, empty, the stored one, an unknown
\* one.
ApiTokenStrs == {NoneStr, "", "token_1", "invalid_token_1"}

\* The required scopes an APIScopeAuthorizer is constructed with.
RequiredScopes ==
    {ScopeList(names) : names \in SUBSET ScopeNames}
    \cup {ScopeStr(str) : str \in ScopeNames}

\* An APITokenAuthorizer that falls back to the ValidTokenAuthorizer when it
\* was constructed without an authorizer.
Mutant_APITokenAuthorizer_authorize(authorizer, attached, api_token_str, utc_now, required_scopes, allow_short_lived) ==
    CASE authorizer \in {NoneStr, "ValidTokenAuthorizer"} ->
             ValidTokenAuthorizer_authorize(attached, api_token_str, utc_now)
      [] authorizer = "InvalidTokenAuthorizer" ->
             InvalidTokenAuthorizer_authorize(attached, api_token_str)
      [] authorizer = "ShortLivedTokenAuthorizer" ->
             ShortLivedTokenAuthorizer_authorize(
                 attached, api_token_str, utc_now)
      [] authorizer = "APIScopeAuthorizer" ->
             APIScopeAuthorizer_authorize(
                 attached, api_token_str, utc_now,
                 required_scopes, allow_short_lived)

\* APITokenAuthorizer.authorize: the call is delegated to the authorizer
\* the APITokenAuthorizer was constructed with; without one (NoneStr)
\* nothing is done.  The exception raised, or "none".
APITokenAuthorizer_authorize(authorizer, attached, api_token_str, utc_now, required_scopes, allow_short_lived) ==
    CASE authorizer = NoneStr -> "none"
      [] authorizer = "InvalidTokenAuthorizer" ->
             InvalidTokenAuthorizer_authorize(attached, api_token_str)
      [] authorizer = "ValidTokenAuthorizer" ->
             ValidTokenAuthorizer_authorize(attached, api_token_str, utc_now)
      [] authorizer = "ShortLivedTokenAuthorizer" ->
             ShortLivedTokenAuthorizer_authorize(
                 attached, api_token_str, utc_now)
      [] authorizer = "APIScopeAuthorizer" ->
             APIScopeAuthorizer_authorize(
                 attached, api_token_str, utc_now,
                 required_scopes, allow_short_lived)

\* How an authorizer is used: attached to an APITokenAuthorizer that holds
\* the bearer token of the request, or on its own, without any token.
Attachments == ({TRUE} \X ApiTokenStrs) \cup {<<FALSE, NoneStr>>}

\* The authorizer `authorizer`, attached to an APITokenAuthorizer for the
\* bearer token or used on its own, is asked to authorize at the instant
\* utc_now.
Authorize(authorizer, attached, api_token_str, utc_now, required_scopes, allow_short_lived) ==
    /\ Idle
    /\ LET svc == MyData_get_context_for_service_user_configured
           exc == APITokenAuthorizer_authorize(
                      authorizer, attached, api_token_str, utc_now,
                      required_scopes, allow_short_lived)
       IN  last' = [op |-> "authorize", authorizer |-> authorizer,
                    attached |-> attached, api_token |-> api_token_str,
                    utc_now |-> utc_now,
                    required_scopes |-> required_scopes,
                    allow_short_lived |-> allow_short_lived,
                    user |-> APITokenAuthorizer_get_user(api_token_str),
                    token |-> APITokenAuthorizer_get_api_token(api_token_str),
                    is_long_lived_token |->
                        APITokenAuthorizer_is_long_lived_token(api_token_str),
                    is_short_lived_token |->
                        APITokenAuthorizer_is_short_lived_token(api_token_str),
                    is_valid_user |->
                        APITokenAuthorizer_is_valid_user(api_token_str),
                    is_enabled |->
                        APITokenAuthorizer_is_enabled(api_token_str),
                    is_not_expired |->
                        APITokenAuthorizer_is_not_expired(api_token_str, utc_now),
                    is_valid_token |->
                        APITokenAuthorizer_is_valid_token(api_token_str, utc_now),
                    outcome |->
                        IF /\ authorizer # NoneStr
                           /\ attached /\ ~Falsy(api_token_str)
                           /\ svc.exc # "none"
                        THEN svc.exc
                        ELSE IF exc = "none" THEN "ok" ELSE exc]
    /\ UNCHANGED <<tokenAuth, users, resources, ctx, session, authCfg, writes>>

----------------------------------------------------------------------------
(* UserAuthenticator.create_api_token *)

\* The APIToken object create_api_token builds: no API client, the given
\* title, and an expiry of the host's local time (`datetime.now()`, the UTC
\* instant shifted by the UTC offset of the host) plus the timeout.
NewAPIToken(title, session_timeout_in_seconds, utc_now, utc_offset) ==
    [id |-> NoneId, kind |-> "APIToken", user_id |-> NoneId,
     title |-> title, token |-> "random_token", api_client_id |-> NoneId,
     enabled |-> TRUE,
     expires |-> (utc_now + utc_offset) + session_timeout_in_seconds,
     token_scopes |-> {}]

\* UserAuthenticator.create_api_token with a CredentialsAuthenticator for
\* the given credentials, on a host whose local clock is utc_offset seconds
\* ahead of UTC, at the instant utc_now.
CreateApiToken(username, password, second_factor, session_timeout_in_seconds, utc_now, utc_offset) ==
    /\ Idle
    /\ ctx.state # "open"
    /\ LET new_api_token == NewAPIToken("b", session_timeout_in_seconds,
                                        utc_now, utc_offset)
           auth == CredentialsAuthenticator_authenticate(
                       TRUE, username, password, second_factor)
           opened == IF auth.exc = "none"
                     THEN MyData_get_context(auth.user) ELSE auth.exc
           res == Creator_create("api_tokens", auth.user,
                      <<Obj("APIToken", NoneId, NoneId, new_api_token.title,
                            NoneStr, FALSE)>>)
           staged == {[new_api_token EXCEPT !.user_id = res.staged[i].user_id] :
                          i \in 1..Len(res.staged)}
       IN  IF ~UserAuthenticator_is_valid
           THEN /\ last' = [op |-> "create_api_token",
                            outcome |-> "AuthenticatorNotConfigured",
                            authenticated |-> FALSE, user |-> NoUser,
                            session_timeout_in_seconds |->
                                session_timeout_in_seconds,
                            utc_now |-> utc_now, utc_offset |-> utc_offset,
                            new_api_token |-> NoToken, persisted |-> {}]
                /\ UNCHANGED <<tokenAuth, resources, ctx>>
           ELSE IF opened # "none"
           THEN /\ last' = [op |-> "create_api_token", outcome |-> opened,
                            authenticated |-> auth.exc = "none",
                            user |-> auth.user,
                            session_timeout_in_seconds |->
                                session_timeout_in_seconds,
                            utc_now |-> utc_now, utc_offset |-> utc_offset,
                            new_api_token |-> new_api_token,
                            persisted |-> {}]
                /\ UNCHANGED <<tokenAuth, resources, ctx>>
           ELSE /\ last' = [op |-> "create_api_token",
                            outcome |-> IF res.exc = "none" THEN "ok"
                                        ELSE res.exc,
                            authenticated |-> TRUE, user |-> auth.user,
                            session_timeout_in_seconds |->
                                session_timeout_in_seconds,
                            utc_now |-> utc_now, utc_offset |-> utc_offset,
                            new_api_token |-> new_api_token,
                            persisted |-> staged]
                /\ resources' = resources \cup staged
                /\ ctx' = [state |-> "closed", user |-> auth.user]
    /\ session' = {}
    /\ UNCHANGED <<tokenAuth, users, authCfg, writes>>

----------------------------------------------------------------------------

\* The caller takes the result of the last call and goes on.
Return ==
    /\ ~Idle
    /\ last' = NoCall
    /\ UNCHANGED <<tokenAuth, users, resources, ctx, session, authCfg, writes>>

Next ==
    \/ Return
    \/ Idle /\ \E u \in SeedUsers : GetContext(u)
    \/ Idle /\ \E n \in Usernames, p \in Passwords : GetContextForServiceUser(n, p)
    \/ CommitSession
    \/ AbortSession
    \/ CloseSession
    \/ \E exception_type, commit_raises \in BOOLEAN :
           Exit(exception_type, commit_raises)
    \/ Idle /\ ctx.state = "open" /\
           \E mgr \in Managers : \E flt \in Filters(mgr), sort \in Sorts(mgr),
                                      page \in Pages :
               Retrieve(mgr, flt, sort, page[1], page[2])
    \/ Idle /\ ctx.state = "open" /\
           \E mgr \in Managers : \E flt \in Filters(mgr) : Count(mgr, flt)
    \/ Idle /\ ctx.state = "open" /\
           \E mgr \in Managers : \E models \in NewBatches(CreateCands(mgr)) :
               Create(mgr, models)
    \/ Idle /\ ctx.state = "open" /\ writes < MaxWrites /\
           \E mgr \in Managers : \E models \in UpdateBatches(mgr, ctx.user) :
               Update(mgr, models)
    \/ Idle /\ ctx.state = "open" /\ writes < MaxWrites /\
           \E mgr \in Managers : \E models \in DeleteBatches(mgr, ctx.user) :
               Delete(mgr, models)

Spec == Init /\ [][Next]_vars

\* Credential login against a User table that the users manager changes.
NextAuth ==
    \/ Return
    \/ Idle /\ \E u \in SeedUsers : GetContext(u)
    \/ \E exception_type, commit_raises \in BOOLEAN :
           Exit(exception_type, commit_raises)
    \/ Idle /\ ctx.state = "open" /\ writes < MaxWrites /\
           \E models \in UpdateBatches("users", ctx.user) : Update("users", models)
    \/ Idle /\ ctx.state = "open" /\ writes < MaxWrites /\
           \E models \in DeleteBatches("users", ctx.user) : Delete("users", models)
    \/ Idle /\ \E n \in {"service.user", "normal.user.1"},
                   p \in {"service_password", "wrong_pw"} : Configure(n, p)
    \/ Idle /\ \E attached \in BOOLEAN, n \in Usernames, p \in Passwords,
                   sf \in SecondFactors : Authenticate(attached, n, p, sf)

SpecAuth == Init /\ [][NextAuth]_vars

\* Requests with a bearer token against a database with one stored token.
NextToken ==
    \/ Return
    \/ Idle /\ \E authorizer \in Authorizers \ {"APIScopeAuthorizer"},
                   a \in Attachments, utc_now \in {100, 101} :
           Authorize(authorizer, a[1], a[2], utc_now, ScopeList({}), TRUE)
    \/ Idle /\ \E t \in ApiTokenStrs, utc_now \in {100, 101} :
           Authorize(NoneStr, TRUE, t, utc_now, ScopeList({}), TRUE)
    \/ Idle /\ \E a \in Attachments, utc_now \in {100, 101},
                   rs \in RequiredScopes, allow_short_lived \in BOOLEAN :
           Authorize("APIScopeAuthorizer", a[1], a[2], utc_now, rs,
                     allow_short_lived)
    \/ Idle /\ \E p \in {"service_password", "wrong_pw"} :
           Configure("service.user", p)
    \/ Idle /\ \E n \in {"normal.user.1", "service.user", "wrong.user"},
                   p \in {"normal_user_1_pw", "wrong_pw"},
                   timeout \in {3600, 7200},
                   utc_offset \in {-7200, -3600, 0, 3600} :
           CreateApiToken(n, p, NoneStr, timeout, 100, utc_offset)

SpecToken == InitToken /\ [][NextToken]_vars

\* APITokenAuthorizer.__init__: the token string is kept and both caches
\* start as None. The counters record, per property, how often it was read
\* and how often a read opened a service context; `first_user` and
\* `first_api_token` keep what the first read of each property returned.
Construct(api_token_str) ==
    /\ Idle
    /\ ~tokenAuth.constructed
    /\ tokenAuth' = [constructed |-> TRUE,
                     api_token_str |-> api_token_str,
                     _user |-> NoUser, _api_token |-> NoToken,
                     user_reads |-> 0, api_token_reads |-> 0,
                     user_contexts |-> 0, api_token_contexts |-> 0,
                     first_user |-> NoUser, first_api_token |-> NoToken]
    /\ last' = [op |-> "construct", api_token |-> api_token_str]
    /\ UNCHANGED <<users, resources, ctx, session, authCfg, writes>>

\* The `user` property: `if not self._user: self._user = self._get_user()`.
\* _get_user opens a service context unless the token string is falsy.
ReadUser ==
    /\ Idle
    /\ tokenAuth.constructed
    /\ tokenAuth.user_reads < MaxReads
    /\ LET load == tokenAuth._user = NoUser
           opened == load /\ ~Falsy(tokenAuth.api_token_str)
           value == IF load
                    THEN APITokenAuthorizer_get_user(tokenAuth.api_token_str)
                    ELSE tokenAuth._user
       IN  /\ tokenAuth' = [tokenAuth EXCEPT
                   !._user = value,
                   !.user_reads = @ + 1,
                   !.user_contexts = IF opened THEN @ + 1 ELSE @,
                   !.first_user = IF tokenAuth.user_reads = 0 THEN value ELSE @]
           /\ last' = [op |-> "user", result |-> value, opened |-> opened]
    /\ UNCHANGED <<users, resources, ctx, session, authCfg, writes>>

\* The `api_token` property:
\* `if not self._api_token: self._api_token = self._get_api_token()`.
ReadApiToken ==
    /\ Idle
    /\ tokenAuth.constructed
    /\ tokenAuth.api_token_reads < MaxReads
    /\ LET load == tokenAuth._api_token = NoToken
           opened == load /\ ~Falsy(tokenAuth.api_token_str)
           value == IF load
                    THEN APITokenAuthorizer_get_api_token(
                             tokenAuth.api_token_str)
                    ELSE tokenAuth._api_token
       IN  /\ tokenAuth' = [tokenAuth EXCEPT
                   !._api_token = value,
                   !.api_token_reads = @ + 1,
                   !.api_token_contexts = IF opened THEN @ + 1 ELSE @,
                   !.first_api_token =
                       IF tokenAuth.api_token_reads = 0 THEN value ELSE @]
           /\ last' = [op |-> "api_token", result |-> value,
                       opened |-> opened]
    /\ UNCHANGED <<users, resources, ctx, session, authCfg, writes>>

\* The owner of the stored token changes its `enabled` flag through
\* Updater.update, which commits in a session of its own.
UpdateStoredToken(enabled) ==
    /\ Idle
    /\ writes < MaxWrites
    /\ \E r \in resources : r.enabled # enabled
    /\ resources' = {[r EXCEPT !.enabled = enabled] : r \in resources}
    /\ writes' = writes + 1
    /\ last' = [op |-> "update", enabled |-> enabled]
    /\ UNCHANGED <<tokenAuth, users, ctx, session, authCfg>>

\* One APITokenAuthorizer whose cached properties are read repeatedly while
\* the store changes.
NextCache ==
    \/ Return
    \/ Idle /\ \E t \in ApiTokenStrs : Construct(t)
    \/ ReadUser
    \/ ReadApiToken
    \/ Idle /\ \E enabled \in BOOLEAN : UpdateStoredToken(enabled)

SpecCache == InitToken /\ [][NextCache]_vars

\* Strategies used directly, as the unit tests of the strategies do.
NextPairing ==
    \/ Return
    \/ Idle /\ \E operation \in {"retrieve", "create"},
                   strategy \in Strategies,
                   database_model \in {"User", "Tag", "APIToken"},
                   user \in SeedUsers :
           \E model \in StrategyCands(operation, database_model) :
               UseStrategy(operation, strategy, database_model, user, model)
    \/ Idle /\ writes < MaxWrites /\
           \E operation \in {"update", "delete"},
              strategy \in Strategies,
              database_model \in {"User", "Tag", "APIToken"},
              user \in SeedUsers :
           \E model \in StrategyCands(operation, database_model) :
               UseStrategy(operation, strategy, database_model, user, model)

SpecPairing == Init /\ [][NextPairing]_vars

----------------------------------------------------------------------------
(* Properties *)

OwnedManagers == Managers \ {"users"}

\* The rows of a manager's table that an identity owns and that the session
\* of the context has not staged for deletion.
OwnedVisible(mgr, user) ==
    {r \in resources : /\ r.kind = ModelOf(mgr)
                       /\ r.user_id = user.id
                       /\ <<r.kind, r.id>> \notin session}

\* The caller's own where-clauses of the last retrieve or count.
CallerClauses ==
    IF last.flt.kind = "single" THEN {last.flt.clause}
    ELSE IF last.flt.kind = "list"
         THEN {last.flt.clauses[i] : i \in 1..Len(last.flt.clauses)}
         ELSE {}

\* C1: retrieve and count on an owned-resource manager, in a context opened
\* as a USER or a ROOT identity, return only rows whose owner is the identity
\* of the context, whatever filter, sort or pagination the caller passes;
\* count is the number of the identity's own rows that match the filter.
C1_OwnedRetrievalIsScopedToOwner ==
    (/\ last.op \in {"retrieve", "count"}
     /\ last.mgr \in OwnedManagers
     /\ last.user.role \in {"ROOT", "USER"})
    => /\ last.outcome = "ok"
       /\ last.op = "retrieve" =>
              \A i \in 1..Len(last.rows) :
                  /\ last.rows[i].user_id = last.user.id
                  /\ last.rows[i] \in OwnedVisible(last.mgr, last.user)
       /\ last.op = "count" =>
              last.count = Cardinality(
                  {r \in OwnedVisible(last.mgr, last.user) :
                       \A c \in CallerClauses : Matches(r, c)})

\* A ROOT identity lists its tags without a filter while other identities
\* own tags too, and gets a row back.
C1_Witness ==
    /\ last.op = "retrieve"
    /\ last.mgr = "tags"
    /\ last.user.role = "ROOT"
    /\ last.flt.kind = "none"
    /\ Len(last.rows) > 0
    /\ \E r \in resources : r.kind = "Tag" /\ r.user_id # last.user.id

\* The models of the last call are all instances of the manager's class.
AllOfManagerClass ==
    \A i \in 1..Len(last.models) : last.models[i].kind = ModelOf(last.mgr)

\* C2: update and delete on an owned-resource manager, given a record whose
\* persisted owner is another identity than the one of the context, fail
\* with PermissionDenied, and the record stays in the store with its owner
\* and is not staged for deletion.
C2_ForeignRecordIsDenied ==
    (/\ last.op \in {"update", "delete"}
     /\ last.mgr \in OwnedManagers
     /\ AllOfManagerClass
     /\ \E i \in 1..Len(last.models) :
            last.owners[i] \notin {NoneId, last.user.id})
    => /\ last.outcome = "PermissionDenied"
       /\ \A i \in 1..Len(last.models) :
              /\ PersistedOwner(last.models[i]) = last.owners[i]
              /\ Ref(last.models[i]) \notin session

\* C3: create on an owned-resource manager stamps the identity of the
\* context as the owner of every model that has no owner or that identity
\* as owner, and stages the models; a model with another owner makes the
\* call fail with PermissionDenied and nothing is staged.
C3_CreateStampsOrDenies ==
    (/\ last.op = "create"
     /\ last.mgr \in OwnedManagers
     /\ AllOfManagerClass)
    => IF \E i \in 1..Len(last.models) :
              last.models[i].user_id \notin {NoneId, last.user.id}
       THEN last.outcome = "PermissionDenied" /\ last.staged = <<>>
       ELSE /\ last.outcome = "ok"
            /\ Len(last.staged) = Len(last.models)
            /\ \A i \in 1..Len(last.staged) :
                   last.staged[i].user_id = last.user.id

\* The list of the last call holds the record of the identity of the context.
SelfInModels ==
    \E i \in 1..Len(last.models) :
        last.models[i].kind = "User" /\ last.models[i].id = last.user.id

\* C4: users.delete of a list that holds the record of the identity of the
\* context fails with PermissionDenied whatever the role, also when the
\* record is one of several in the list; the record is not staged for
\* deletion and is still in the store.
C4_SelfDeleteIsDenied ==
    (last.op = "delete" /\ last.mgr = "users" /\ SelfInModels)
    => /\ last.outcome = "PermissionDenied"
       /\ <<"User", last.user.id>> \notin session
       /\ \E u \in users : u.id = last.user.id

\* A ROOT identity deletes a list of two users, its own record last.
C4_Witness ==
    /\ last.op = "delete"
    /\ last.mgr = "users"
    /\ last.user.role = "ROOT"
    /\ Len(last.models) = 2
    /\ last.models[2].kind = "User"
    /\ last.models[2].id = last.user.id
    /\ last.models[1].id # last.user.id
    /\ last.outcome = "PermissionDenied"

C7_UserUpdateRootOrSelf ==
    [][ (/\ last'.op = "update"
         /\ last'.mgr = "users"
         /\ \A i \in 1..Len(last'.models) :
                last'.models[i].kind = "User" /\ last'.models[i].hidden)
        => IF \/ last'.user.role = "ROOT"
              \/ \A i \in 1..Len(last'.models) :
                     last'.models[i].id = last'.user.id
           THEN /\ last'.outcome = "ok"
                /\ \A i \in 1..Len(last'.models) :
                       \E u \in users' :
                           /\ u.id = last'.models[i].id
                           /\ u.second_factor = last'.models[i].second_factor
           ELSE /\ last'.outcome = "PermissionDenied"
                /\ users' = users ]_vars

\* A USER identity passes the changed record of another identity to
\* users.update and is refused.
C7_Witness ==
    /\ last.op = "update"
    /\ last.mgr = "users"
    /\ last.user.role = "USER"
    /\ Len(last.models) = 1
    /\ last.models[1].hidden
    /\ last.models[1].id # last.user.id
    /\ last.models[1].second_factor = "totp_secret"
    /\ last.outcome = "PermissionDenied"

\* C8: users.retrieve and users.count in a context of a non-ROOT identity
\* return only the record of that identity; in a context of a ROOT identity
\* they return every identity that matches the caller's filter.
C8_UserRetrievalScope ==
    (last.op \in {"retrieve", "count"} /\ last.mgr = "users")
    => /\ last.outcome = "ok"
       /\ last.user.role # "ROOT" =>
              /\ last.op = "retrieve" =>
                     \A i \in 1..Len(last.rows) : last.rows[i].id = last.user.id
              /\ last.op = "count" =>
                     last.count = Cardinality(
                         {u \in SessionRows("User") :
                              /\ u.id = last.user.id
                              /\ \A c \in CallerClauses : Matches(u, c)})
       /\ last.user.role = "ROOT" =>
              /\ (last.op = "retrieve"
                     /\ (last.start = NoneInt \/ last.max_items = NoneInt)) =>
                     {last.rows[i] : i \in 1..Len(last.rows)} =
                         {u \in SessionRows("User") :
                              \A c \in CallerClauses : Matches(u, c)}
              /\ last.op = "count" =>
                     last.count = Cardinality(
                         {u \in SessionRows("User") :
                              \A c \in CallerClauses : Matches(u, c)})

\* C9: MyData.get_context with an identity whose role is SERVICE fails with
\* PermissionDenied, and no context of a SERVICE identity is opened by it.
C9_ServiceIdentityGetsNoContext ==
    (last.op = "get_context" /\ last.user.role = "SERVICE")
    => /\ last.outcome = "PermissionDenied"
       /\ ~(ctx.state = "open" /\ ctx.user = last.user)

\* The account the last login names is one the authenticator accepts: the
\* username matches one stored identity, whose role is not SERVICE, no
\* second factor is supplied when the account has none, and the credentials
\* verify.
LoginAccepted(u) ==
    /\ u \in users
    /\ u.username = last.username
    /\ Cardinality({x \in users : x.username = last.username}) = 1
    /\ u.role # "SERVICE"
    /\ ~(u.second_factor = NoneStr /\ last.second_factor # NoneStr)
    /\ User_verify_credentials(u, last.username, last.password,
                               last.second_factor)

\* The last login returned an identity exactly when the account is one the
\* authenticator accepts, and raised AuthenticationFailed in every other
\* case.
LoginOutcomeAsStated ==
    IF \E u \in users : LoginAccepted(u)
    THEN /\ last.outcome = "ok"
         /\ LoginAccepted(last.result)
    ELSE /\ last.outcome = "AuthenticationFailed"
         /\ last.result = NoUser

\* The authenticator of the last login is attached to a UserAuthenticator
\* that is configured with credentials that open a service context.
LoginConfigured ==
    /\ last.attached
    /\ UserAuthenticator_is_valid
    /\ MyData_get_context_for_service_user(
           authCfg.service_username, authCfg.service_password).exc = "none"

\* C10 (amended): when the authenticator is attached to a UserAuthenticator
\* whose configured service credentials open a service context,
\* CredentialsAuthenticator.authenticate returns an identity only when the
\* username matches a stored identity whose role is not SERVICE, no second
\* factor is supplied for an account without one and the credentials verify;
\* in every other case it raises AuthenticationFailed.
C10_LoginWhenConfigured ==
    (last.op = "authenticate" /\ LoginConfigured) => LoginOutcomeAsStated

\* C10 (as stated): the same without the condition on the configuration.
C10_LoginAsStated ==
    last.op = "authenticate" => LoginOutcomeAsStated

\* A configured authenticator refuses a login with the right password and a
\* second factor for an account that has none.
C10_Witness ==
    /\ last.op = "authenticate"
    /\ LoginConfigured
    /\ last.username = "normal.user.1"
    /\ last.password = "normal_user_1_pw"
    /\ last.second_factor = "good_code"
    /\ \E u \in users : u.username = last.username /\ u.second_factor = NoneStr
    /\ last.outcome = "AuthenticationFailed"

----------------------------------------------------------------------------
(* Session control of a context *)

\* The staged deletions `refs` have reached the database.
Persisted(refs) ==
    /\ \A u \in users : <<"User", u.id>> \notin refs
    /\ \A r \in resources : <<r.kind, r.id>> \notin refs

\* The rows the staged deletions `refs` name are all still in the database.
Untouched(refs) ==
    \A ref \in refs :
        \/ \E u \in users : <<"User", u.id>> = ref
        \/ \E r \in resources : <<r.kind, r.id>> = ref

\* C17: on every exit path of the with-block of a context (normal return, a
\* failure in the body, a failure of the commit at exit, exit after an
\* abort) the session of the context is released exactly once.
C17_SessionReleasedOnceOnExit ==
    last.op = "exit" => (last.closes = 1 /\ ctx.state = "closed")

\* C18: close_session commits the writes staged in the session and then
\* releases the session: every write staged before the close is persisted.
C18_CloseCommitsStaged ==
    last.op = "close_session" =>
        (ctx.state = "closed" /\ Persisted(last.staged))

\* C19: abort_session discards every write staged in the session since the
\* last commit and does not release the session: the context stays open,
\* nothing is staged any more, the rows the discarded writes named are
\* still stored, and a commit made now would persist nothing.
C19_AbortDiscardsStaged ==
    last.op = "abort_session" =>
        /\ ctx.state = "open"
        /\ session = {}
        /\ Untouched(last.discarded)
        /\ CommittedUsers = users
        /\ CommittedResources = resources

\* C19: what was discarded by an abort is not persisted by the commit or
\* the exit that follows it.
C19_Witness ==
    /\ last.op = "abort_session"
    /\ last.discarded # {}

----------------------------------------------------------------------------
(* Authorizers *)

\* The stored token rows a bearer token names.
StoredRows(api_token_str) ==
    {r \in resources : r.kind = "APIToken" /\ r.token = api_token_str}

\* The last call asked the authorizer `authorizer` attached to a bearer
\* token, or on its own.
Authorized(authorizer) ==
    last.op = "authorize" /\ last.authorizer = authorizer

\* The bearer token of the last call resolves to a stored token owned by a
\* user.
LastResolved == last.attached /\ StoredRows(last.api_token) # {}

\* The bearer token of the last call names a stored token that is enabled
\* and expires after the instant of the call.
LastValid ==
    /\ last.attached
    /\ \E r \in StoredRows(last.api_token) :
           r.enabled /\ r.expires > last.utc_now

\* C11: is_valid_token is true exactly when is_valid_user, is_enabled and
\* is_not_expired are all true, that is when the token is stored, enabled
\* and not yet expired; ValidTokenAuthorizer.authorize succeeds exactly
\* when is_valid_token is true and raises AuthorizationFailed otherwise.
C11_ValidTokenIsConjunction ==
    last.op = "authorize" =>
        /\ last.is_valid_token <=>
               (last.is_valid_user /\ last.is_enabled /\ last.is_not_expired)
        /\ last.attached => (last.is_valid_token <=> LastValid)
        /\ last.authorizer = "ValidTokenAuthorizer" =>
               /\ last.outcome = "ok" <=>
                      (last.attached /\ last.is_valid_token)
               /\ last.outcome \in {"ok", "AuthorizationFailed"}

\* C11: a stored, unexpired but disabled token is refused by the
\* ValidTokenAuthorizer.
C11_Witness ==
    /\ Authorized("ValidTokenAuthorizer")
    /\ last.attached
    /\ last.is_valid_user /\ last.is_not_expired /\ ~last.is_enabled
    /\ last.outcome = "AuthorizationFailed"

\* The scopes a required_scopes argument asks for: the names of a list,
\* the one name a string gives.
RequiredNames(required_scopes) ==
    IF required_scopes.type = "list"
    THEN required_scopes.names
    ELSE {required_scopes.str}

\* C12: APIScopeAuthorizer.authorize succeeds exactly when the token is
\* valid and either long-lived with every required scope among its granted
\* scope names, or short-lived with allow_short_lived true; otherwise it
\* raises AuthorizationFailed.
C12_ScopeAuthorizer ==
    Authorized("APIScopeAuthorizer") =>
        /\ last.outcome \in {"ok", "AuthorizationFailed"}
        /\ last.outcome = "ok" <=>
               /\ last.attached
               /\ \E r \in StoredRows(last.api_token) :
                      /\ r.enabled /\ r.expires > last.utc_now
                      /\ \/ /\ r.api_client_id # NoneId
                            /\ RequiredNames(last.required_scopes)
                                   \subseteq r.token_scopes
                         \/ /\ r.api_client_id = NoneId
                            /\ last.allow_short_lived

\* C13: InvalidTokenAuthorizer.authorize succeeds exactly when the bearer
\* token resolves to no user (absent or unknown) and raises
\* AuthorizationFailed whenever a user is resolved, also for a disabled or
\* expired token.
C13_InvalidTokenAuthorizer ==
    Authorized("InvalidTokenAuthorizer") =>
        /\ last.outcome = "ok" <=> ~LastResolved
        /\ LastResolved => last.outcome = "AuthorizationFailed"

\* C13: a token that is disabled and expired still resolves a user and is
\* refused.
C13_Witness ==
    /\ Authorized("InvalidTokenAuthorizer")
    /\ LastResolved
    /\ \E r \in StoredRows(last.api_token) :
           ~r.enabled /\ r.expires <= last.utc_now
    /\ last.outcome = "AuthorizationFailed"

\* C14: ShortLivedTokenAuthorizer.authorize succeeds exactly when the
\* token is valid and has no API client; a valid long-lived token and
\* every invalid token raise AuthorizationFailed.
C14_ShortLivedTokenAuthorizer ==
    Authorized("ShortLivedTokenAuthorizer") =>
        /\ last.outcome \in {"ok", "AuthorizationFailed"}
        /\ last.outcome = "ok" <=>
               /\ LastValid
               /\ \E r \in StoredRows(last.api_token) :
                      r.api_client_id = NoneId

\* C14: a valid long-lived token is refused.
C14_Witness ==
    /\ Authorized("ShortLivedTokenAuthorizer")
    /\ LastValid
    /\ \E r \in StoredRows(last.api_token) : r.api_client_id # NoneId
    /\ last.outcome = "AuthorizationFailed"

----------------------------------------------------------------------------
(* Issuing API tokens *)

\* C15: create_api_token persists a token only when the authentication of
\* the caller succeeds, and then exactly one new token, owned by the
\* authenticated identity, without API client and expiring at the issue
\* time plus the timeout; when the authentication fails or the
\* authenticator is not configured it raises and persists nothing.
C15_CreateApiTokenPersists ==
    last.op = "create_api_token" =>
        IF last.authenticated
        THEN /\ last.outcome = "ok"
             /\ Cardinality(last.persisted) = 1
             /\ \A t \in last.persisted :
                    /\ t \in resources
                    /\ t.user_id = last.user.id
                    /\ t.api_client_id = NoneId
                    /\ t.expires = last.utc_now + last.utc_offset
                                       + last.session_timeout_in_seconds
        ELSE /\ last.outcome # "ok"
             /\ last.persisted = {}

\* C16: the token create_api_token issues with a timeout of 3600 seconds
\* is not expired when it is checked at the instant of its issue, whatever
\* the offset of the host's local clock from UTC; a stored token whose
\* expires lies in the past has is_not_expired false.
C16_IssuedTokenIsNotExpired ==
    /\ (/\ last.op = "create_api_token"
        /\ last.authenticated
        /\ last.session_timeout_in_seconds = 3600)
           => APIToken_expires_after(last.new_api_token, last.utc_now)
    /\ (/\ last.op = "authorize"
        /\ last.attached
        /\ \E r \in StoredRows(last.api_token) : r.expires < last.utc_now)
           => ~last.is_not_expired

----------------------------------------------------------------------------
(* Strategy and model pairing *)

\* A strategy of a family bound to a model class the family does not
\* support.
WrongPairing(strategy, database_model) ==
    \/ strategy = "UserScoped" /\ database_model = "User"
    \/ strategy = "User" /\ database_model \in UserScopedModels

\* C20: a user-scoped retriever, creator, updater or deleter bound to the
\* User model, and a user retriever, creator, updater or deleter bound to a
\* user-scoped model, raise WrongDataManipulator when used, whatever the
\* role of the caller, and never a permission decision.
C20_WrongPairingSignals ==
    (/\ last.op = "use_strategy"
     /\ WrongPairing(last.strategy, last.database_model))
        => last.outcome = "WrongDataManipulator"

----------------------------------------------------------------------------
(* Token resolution *)

\* C21: a bearer token string that is absent (None or empty) or that
\* matches no stored token resolves to no user and no token without
\* raising, and is_valid_user, is_enabled, is_not_expired,
\* is_long_lived_token, is_short_lived_token and is_valid_token are false.
C21_UnresolvedTokenIsAllFalse ==
    (/\ last.op = "authorize"
     /\ StoredRows(last.api_token) = {} \/ last.api_token \in {NoneStr, ""})
        => /\ last.user = NoUser
           /\ last.token = NoToken
           /\ last.outcome \in {"ok", "AuthorizationFailed"}
           /\ ~last.is_valid_user /\ ~last.is_enabled
           /\ ~last.is_not_expired /\ ~last.is_long_lived_token
           /\ ~last.is_short_lived_token /\ ~last.is_valid_token

\* C21: an unknown bearer string given to an APITokenAuthorizer.
C21_Witness ==
    /\ last.op = "authorize"
    /\ last.attached
    /\ last.api_token = "invalid_token_1"
    /\ last.user = NoUser /\ last.token = NoToken
    /\ ~last.is_short_lived_token

\* C23 as stated: is_short_lived_token is always the negation of
\* is_long_lived_token.
C23_ShortIsNotLong ==
    last.op = "authorize" =>
        (last.is_short_lived_token <=> ~last.is_long_lived_token)

\* C23: is_long_lived_token holds exactly when a token is resolved and has
\* an API client id; is_short_lived_token is its negation whenever a token
\* is resolved, and both are false when no token is resolved.
C23_ShortIsNotLongWhenResolved ==
    last.op = "authorize" =>
        /\ last.is_long_lived_token <=>
               \E r \in StoredRows(last.api_token) : r.api_client_id # NoneId
        /\ last.token # NoToken =>
               (last.is_short_lived_token <=> ~last.is_long_lived_token)
        /\ last.token = NoToken =>
               (~last.is_short_lived_token /\ ~last.is_long_lived_token)

\* C23: a resolved token without API client is short-lived and not
\* long-lived.
C23_Witness ==
    /\ last.op = "authorize"
    /\ last.token # NoToken
    /\ last.token.api_client_id = NoneId
    /\ last.is_short_lived_token /\ ~last.is_long_lived_token

\* C27: an APITokenAuthorizer constructed without an authorizer performs
\* no check: authorize returns normally for every token string, absent,
\* unknown, disabled and expired ones included.
C27_NoPolicyAuthorizesAll ==
    (last.op = "authorize" /\ last.authorizer = NoneStr)
        => last.outcome = "ok"

\* C27: a stored token that is disabled and expired passes without policy.
C27_Witness ==
    /\ last.op = "authorize" /\ last.authorizer = NoneStr
    /\ \E r \in StoredRows(last.api_token) :
           ~r.enabled /\ r.expires <= last.utc_now
    /\ last.outcome = "ok"

\* C28: a required scope given as the string S is treated as the list
\* [S]: a valid long-lived token passes exactly when it is granted S.
C28_StringScopeIsOneElementList ==
    (/\ Authorized("APIScopeAuthorizer")
     /\ last.required_scopes.type = "str"
     /\ LastValid
     /\ last.is_long_lived_token)
        => (last.outcome = "ok" <=>
                last.required_scopes.str \in last.token.token_scopes)

----------------------------------------------------------------------------
(* Retrieval *)

\* The rows of the manager of the last call that satisfy the context
\* filter of its caller and every filter the caller supplied.
LastMatching ==
    Retriever_add_filters_to_query(
        SessionRows(ModelOf(last.mgr)),
        get_context_filters(last.mgr, last.user).filters, last.flt)

\* C25: retrieve returns exactly the records that satisfy the context
\* filter and every caller-supplied filter, in sort-key order, with the
\* offset applied whenever start is given and the limit whenever max_items
\* is given, both after filtering; nothing matching gives the empty list;
\* count with the same filter is the number of matching records.
C25_RetrieveFiltersSortsPaginates ==
    /\ (last.op = "retrieve" /\ last.outcome = "ok") =>
           \E s \in Orderings(LastMatching, last.sort) :
               last.rows =
                   Paginate(s,
                            IF last.start = NoneInt THEN 0 ELSE last.start,
                            IF last.max_items = NoneInt THEN Len(s)
                            ELSE last.max_items)
    /\ (last.op = "count" /\ last.outcome = "ok") =>
           last.count = Cardinality(LastMatching)

----------------------------------------------------------------------------
(* Durability and ownership of writes *)

\* C24: no create, update or delete commits by itself: the stored rows are
\* the same after the call as before it; what the call wrote becomes
\* durable only with the commit or the exit of the context.
C24_NoOperationCommits ==
    [][last'.op \in {"create", "update", "delete"}
           => (users' = users /\ resources' = resources)]_vars

\* C26: the owner of a stored owned record never changes: every stored
\* record has the owner it was created with.
C26_OwnerNeverChanges ==
    \A r \in resources :
        \E s \in SeedResources :
            s.kind = r.kind /\ s.id = r.id /\ s.user_id = r.user_id

\* C29: a delete that raises stages nothing: when any element of the list
\* fails its ownership, self-deletion or type check, the session holds
\* after the call exactly what it held before.
C29_RefusedDeleteStagesNothing ==
    [][(last'.op = "delete" /\ last'.outcome # "ok")
           => session' = session]_vars

\* C29: a refused list of two with an element that passes on its own and
\* is not staged.
C29_Witness ==
    /\ last.op = "delete"
    /\ last.outcome = "PermissionDenied"
    /\ Len(last.models) = 2
    /\ \E i \in 1..2 :
           /\ Manager_delete(last.mgr, last.user, <<last.models[i]>>).exc
                  = "none"
           /\ Ref(last.models[i]) \notin session

\* C30 as stated: an exit caused by a failure in the body commits what was
\* staged and propagates the failure of the body.
C30_BodyFailureCommitsAndPropagates ==
    (last.op = "exit" /\ last.exception_type)
        => (Persisted(last.staged) /\ last.outcome = "BodyException")

\* C30: an exit caused by a failure in the body never returns normally;
\* when the commit at exit succeeds, what was staged is persisted and the
\* failure of the body reaches the caller; when the commit itself raises,
\* nothing of what was staged is persisted and the failure of the commit
\* reaches the caller.
C30_BodyFailureCommitsUnlessCommitFails ==
    (last.op = "exit" /\ last.exception_type)
        => /\ last.outcome \in {"BodyException", "CommitError"}
           /\ last.outcome = "BodyException" => Persisted(last.staged)
           /\ last.outcome = "CommitError" => Untouched(last.staged)

\* C30: the body raised after a deletion was staged; the deletion is
\* persisted and the failure of the body propagated.
C30_Witness ==
    /\ last.op = "exit" /\ last.exception_type
    /\ last.staged # {}
    /\ last.outcome = "BodyException"
    /\ Persisted(last.staged)

\* C22: an APITokenAuthorizer resolves its token at most once per instance:
\* neither property opens a second service context, and every later read of
\* a property returns what its first read returned, whatever that was.
C22_ResolvesAtMostOnce ==
    tokenAuth.constructed =>
        /\ tokenAuth.user_contexts <= 1
        /\ tokenAuth.api_token_contexts <= 1
        /\ (last.op = "user" => last.result = tokenAuth.first_user)
        /\ (last.op = "api_token" => last.result = tokenAuth.first_api_token)

====
